---- MODULE Spec2Model ----
(***************************************************************************)
(* SenseiLua: a heuristic static analyzer for Lua sources                  *)
(* (sensei_lua/analyzer.py).  analyze_source splits the source into lines  *)
(* and runs four checks over them: final newline, indentation, trailing    *)
(* whitespace and block balance.  A source is a sequence of one-character  *)
(* strings; the run of analyze_source is a state machine whose steps are   *)
(* the iterations of the loops of the checks.                              *)
(***************************************************************************)
EXTENDS Integers, Sequences, FiniteSets, TLC

(***************************************************************************)
(* Characters and strings                                                  *)
(***************************************************************************)

\* The letters the inputs are built from (str.isalpha is true of them).
Letters == {"a", "c", "d", "e", "f", "h", "i", "l", "n", "o", "p", "r", "t", "u", "x"}

\* ch.isalpha() or ch == "_"
IsWordChar(ch) == ch \in Letters \/ ch = "_"

\* The line boundaries of str.splitlines that the inputs contain.
LineBreaks == {"\n", "\r"}

\* The set of characters of a string, as Python's set(s) / "c in s".
CharsOf(s) == {s[i] : i \in 1..Len(s)}

RECURSIVE SplitFrom(_, _, _, _)
\* The scan of str.splitlines: cur is the line being read, acc the lines read.
SplitFrom(s, i, cur, acc) ==
    IF i > Len(s)
    THEN IF cur # <<>> THEN Append(acc, cur) ELSE acc
    ELSE IF s[i] = "\r" /\ i + 1 <= Len(s) /\ s[i + 1] = "\n"
    THEN SplitFrom(s, i + 2, <<>>, Append(acc, cur))
    ELSE IF s[i] \in LineBreaks
    THEN SplitFrom(s, i + 1, <<>>, Append(acc, cur))
    ELSE SplitFrom(s, i + 1, Append(cur, s[i]), acc)

\* source.splitlines()
SplitLines(s) == SplitFrom(s, 1, <<>>, <<>>)

RECURSIVE LStripLen(_, _)
\* The number of leading space/tab characters of line, from position i on.
LStripLen(line, i) ==
    IF i <= Len(line) /\ line[i] \in {" ", "\t"} THEN LStripLen(line, i + 1) ELSE i - 1

\* line.lstrip(" \t")
LStrip(line) == SubSeq(line, LStripLen(line, 1) + 1, Len(line))

RECURSIVE RStripLen(_, _)
\* The length of line[:i] without its trailing space/tab characters.
RStripLen(line, i) ==
    IF i >= 1 /\ line[i] \in {" ", "\t"} THEN RStripLen(line, i - 1) ELSE i

\* line.rstrip(" \t")
RStrip(line) == SubSeq(line, 1, RStripLen(line, Len(line)))

\* s.replace(" ", "")
RemoveSpaces(s) == SelectSeq(s, LAMBDA ch : ch # " ")

\* line.find(token): the 0-based index of the first occurrence, or -1.
Find(line, token) ==
    LET hits == {i \in 1..(Len(line) - Len(token) + 1) :
                    SubSeq(line, i, i + Len(token) - 1) = token}
    IN  IF hits = {} THEN -1
        ELSE (CHOOSE i \in hits : \A j \in hits : i <= j) - 1

\* Faulty variant: the 0-based index of str.find is returned as the column.
FindColumnZeroBased(line, token) ==
    LET idx == Find(line, token)
    IN  IF idx >= 0 THEN idx ELSE 1

\* Faulty variant: the last occurrence (str.rfind) gives the column.
FindColumnLast(line, token) ==
    LET hits == {i \in 1..(Len(line) - Len(token) + 1) :
                    SubSeq(line, i, i + Len(token) - 1) = token}
    IN  IF hits = {} THEN 1
        ELSE CHOOSE i \in hits : \A j \in hits : j <= i

\* _find_column
FindColumn(line, token) ==
    LET idx == Find(line, token)
    IN  IF idx >= 0 THEN idx + 1 ELSE 1

(***************************************************************************)
(* Keyword tables                                                          *)
(***************************************************************************)

KwFunction == <<"f", "u", "n", "c", "t", "i", "o", "n">>
KwDo == <<"d", "o">>
KwThen == <<"t", "h", "e", "n">>
KwRepeat == <<"r", "e", "p", "e", "a", "t">>
KwEnd == <<"e", "n", "d">>
KwUntil == <<"u", "n", "t", "i", "l">>

\* Faulty variant: "repeat" paired with "end" like the other openers.
BLOCK_PAIRS_AllEnd ==
    (KwFunction :> KwEnd) @@ (KwDo :> KwEnd) @@ (KwThen :> KwEnd) @@ (KwRepeat :> KwEnd)

\* _BLOCK_PAIRS: opening keyword -> required closing keyword.
BLOCK_PAIRS ==
    (KwFunction :> KwEnd) @@ (KwDo :> KwEnd) @@ (KwThen :> KwEnd) @@ (KwRepeat :> KwUntil)

\* _BLOCK_ENDINGS
BLOCK_ENDINGS == {KwEnd, KwUntil}

(***************************************************************************)
(* Issues                                                                  *)
(***************************************************************************)

\* A message: the format text, its keyword argument and its number argument.
Msg(fmt, kw, n) == [fmt |-> fmt, kw |-> kw, n |-> n]

\* Issue(line, column, message, code)
Issue(line, column, message, code) ==
    [line |-> line, column |-> column, message |-> message, code |-> code]

MsgMissingNewline == Msg("Missing final newline", <<>>, 0)
MsgMixed == Msg("Mixed tabs and spaces in indentation", <<>>, 0)
MsgTab == Msg("Tab indentation found (expected spaces)", <<>>, 0)
MsgWidth(size) == Msg("Indentation width should be a multiple of {indent_size}", <<>>, size)
MsgTrailing == Msg("Trailing whitespace", <<>>, 0)
MsgUnexpected(token) == Msg("Unexpected '{token}'", token, 0)
MsgExpected(expected, start_line) ==
    Msg("Expected '{expected}' opened at line {start_line}", expected, start_line)
MsgUnclosed(expected) == Msg("Unclosed block expecting '{expected}'", expected, 0)

(***************************************************************************)
(* _strip_comments and _tokenize                                           *)
(***************************************************************************)

RECURSIVE StripFrom(_, _, _, _)
\* The while loop of _strip_comments; in_string is "" for None.
StripFrom(line, i, in_string, result) ==
    IF i > Len(line) THEN result
    ELSE LET ch == line[i]
             nxt == IF i + 1 <= Len(line) THEN line[i + 1] ELSE ""
         IN  IF in_string = "" /\ ch = "-" /\ nxt = "-" THEN result
             ELSE IF in_string = "" /\ ch \in {"\"", "'"}
             THEN StripFrom(line, i + 1, ch, Append(result, " "))
             ELSE IF in_string # ""
             THEN IF ch = "\\"
                  THEN StripFrom(line, i + 2, in_string, Append(result, " "))
                  ELSE IF ch = in_string
                  THEN StripFrom(line, i + 1, "", Append(result, " "))
                  ELSE StripFrom(line, i + 1, in_string, Append(result, " "))
             ELSE StripFrom(line, i + 1, "", Append(result, ch))

RECURSIVE StripFromNoEscape(_, _, _, _)
\* Faulty variant: the loop without the backslash case (an escaped quote ends the string).
StripFromNoEscape(line, i, in_string, result) ==
    IF i > Len(line) THEN result
    ELSE LET ch == line[i]
             nxt == IF i + 1 <= Len(line) THEN line[i + 1] ELSE ""
         IN  IF in_string = "" /\ ch = "-" /\ nxt = "-" THEN result
             ELSE IF in_string = "" /\ ch \in {"\"", "'"}
             THEN StripFromNoEscape(line, i + 1, ch, Append(result, " "))
             ELSE IF in_string # ""
             THEN IF ch = in_string
                  THEN StripFromNoEscape(line, i + 1, "", Append(result, " "))
                  ELSE StripFromNoEscape(line, i + 1, in_string, Append(result, " "))
             ELSE StripFromNoEscape(line, i + 1, "", Append(result, ch))

StripCommentsNoEscape(line) == StripFromNoEscape(line, 1, "", <<>>)

RECURSIVE StripFromCommentFirst(_, _, _, _)
\* Faulty variant: the comment marker is looked for before the string state.
StripFromCommentFirst(line, i, in_string, result) ==
    IF i > Len(line) THEN result
    ELSE LET ch == line[i]
             nxt == IF i + 1 <= Len(line) THEN line[i + 1] ELSE ""
         IN  IF ch = "-" /\ nxt = "-" THEN result
             ELSE IF in_string = "" /\ ch \in {"\"", "'"}
             THEN StripFromCommentFirst(line, i + 1, ch, Append(result, " "))
             ELSE IF in_string # ""
             THEN IF ch = "\\"
                  THEN StripFromCommentFirst(line, i + 2, in_string, Append(result, " "))
                  ELSE IF ch = in_string
                  THEN StripFromCommentFirst(line, i + 1, "", Append(result, " "))
                  ELSE StripFromCommentFirst(line, i + 1, in_string, Append(result, " "))
             ELSE StripFromCommentFirst(line, i + 1, "", Append(result, ch))

StripCommentsCommentFirst(line) == StripFromCommentFirst(line, 1, "", <<>>)

\* _strip_comments
StripComments(line) == StripFrom(line, 1, "", <<>>)

RECURSIVE TokenizeFrom(_, _, _, _)
\* The for loop of _tokenize: word is the word being read, out the words yielded.
TokenizeFrom(line, i, word, out) ==
    IF i > Len(line)
    THEN IF word # <<>> THEN Append(out, word) ELSE out
    ELSE IF IsWordChar(line[i])
    THEN TokenizeFrom(line, i + 1, Append(word, line[i]), out)
    ELSE IF word # <<>>
    THEN TokenizeFrom(line, i + 1, <<>>, Append(out, word))
    ELSE TokenizeFrom(line, i + 1, <<>>, out)

\* list(_tokenize(line))
Tokenize(line) == TokenizeFrom(line, 1, <<>>, <<>>)

(***************************************************************************)
(* The per-line bodies of _check_indentation and _check_trailing_whitespace*)
(***************************************************************************)

\* Faulty variant: blank lines are not skipped.
IndentIssuesNoBlankSkip(line, idx, prefer, size) ==
    LET stripped == LStrip(line)
        indent == SubSeq(line, 1, Len(line) - Len(stripped))
        tab == IF prefer /\ "\t" \in CharsOf(indent)
               THEN <<Issue(idx, Find(indent, <<"\t">>) + 1, MsgTab, "INDENT")>>
               ELSE <<>>
    IN  IF " " \in CharsOf(indent) /\ "\t" \in CharsOf(indent)
        THEN <<Issue(idx, 1, MsgMixed, "INDENT")>>
        ELSE IF indent # <<>> /\ RemoveSpaces(indent) = indent
        THEN tab
        ELSE IF indent # <<>> /\ CharsOf(indent) = {" "} /\ (Len(indent) % size) # 0
        THEN tab \o <<Issue(idx, Len(indent), MsgWidth(size), "INDENT")>>
        ELSE tab

\* Faulty variant: the column of the first tab is its 0-based index.
IndentIssuesZeroBasedTab(line, idx, prefer, size) ==
    LET stripped == LStrip(line)
        indent == SubSeq(line, 1, Len(line) - Len(stripped))
        tab == IF prefer /\ "\t" \in CharsOf(indent)
               THEN <<Issue(idx, Find(indent, <<"\t">>), MsgTab, "INDENT")>>
               ELSE <<>>
    IN  IF stripped = <<>> THEN <<>>
        ELSE IF " " \in CharsOf(indent) /\ "\t" \in CharsOf(indent)
        THEN <<Issue(idx, 1, MsgMixed, "INDENT")>>
        ELSE IF indent # <<>> /\ RemoveSpaces(indent) = indent
        THEN tab
        ELSE IF indent # <<>> /\ CharsOf(indent) = {" "} /\ (Len(indent) % size) # 0
        THEN tab \o <<Issue(idx, Len(indent), MsgWidth(size), "INDENT")>>
        ELSE tab

\* Faulty variant: no "continue" after the mixed issue, the tab check follows it.
IndentIssuesMixedFallsThrough(line, idx, prefer, size) ==
    LET stripped == LStrip(line)
        indent == SubSeq(line, 1, Len(line) - Len(stripped))
        mixed == IF " " \in CharsOf(indent) /\ "\t" \in CharsOf(indent)
                 THEN <<Issue(idx, 1, MsgMixed, "INDENT")>>
                 ELSE <<>>
        tab == IF prefer /\ "\t" \in CharsOf(indent)
               THEN <<Issue(idx, Find(indent, <<"\t">>) + 1, MsgTab, "INDENT")>>
               ELSE <<>>
    IN  IF stripped = <<>> THEN <<>>
        ELSE IF indent # <<>> /\ RemoveSpaces(indent) = indent
        THEN mixed \o tab
        ELSE IF indent # <<>> /\ CharsOf(indent) = {" "} /\ (Len(indent) % size) # 0
        THEN mixed \o tab \o <<Issue(idx, Len(indent), MsgWidth(size), "INDENT")>>
        ELSE mixed \o tab

\* The issues one iteration of the loop of _check_indentation yields.
IndentIssues(line, idx, prefer, size) ==
    LET stripped == LStrip(line)
        indent == SubSeq(line, 1, Len(line) - Len(stripped))
        tab == IF prefer /\ "\t" \in CharsOf(indent)
               THEN <<Issue(idx, Find(indent, <<"\t">>) + 1, MsgTab, "INDENT")>>
               ELSE <<>>
    IN  IF stripped = <<>> THEN <<>>
        ELSE IF " " \in CharsOf(indent) /\ "\t" \in CharsOf(indent)
        THEN <<Issue(idx, 1, MsgMixed, "INDENT")>>
        ELSE IF indent # <<>> /\ RemoveSpaces(indent) = indent
        THEN tab
        ELSE IF indent # <<>> /\ CharsOf(indent) = {" "} /\ (Len(indent) % size) # 0
        THEN tab \o <<Issue(idx, Len(indent), MsgWidth(size), "INDENT")>>
        ELSE tab

\* Faulty variant: only trailing spaces are looked for, as line.rstrip(" ").
TrailingIssuesSpacesOnly(line, idx) ==
    IF line # <<>> /\ line[Len(line)] = " "
    THEN <<Issue(idx, Len(line), MsgTrailing, "FORMAT")>>
    ELSE <<>>

\* The issues one iteration of the loop of _check_trailing_whitespace yields.
TrailingIssues(line, idx) ==
    IF RStrip(line) # line
    THEN <<Issue(idx, Len(line), MsgTrailing, "FORMAT")>>
    ELSE <<>>

\* Faulty variant: any line boundary at the end of the source counts as a final newline.
NewlineIssuesAnyBreak(src, ls) ==
    IF src # <<>> /\ src[Len(src)] \notin LineBreaks
    THEN <<Issue(IF Len(ls) # 0 THEN Len(ls) ELSE 1,
                 IF ls # <<>> THEN Len(ls[Len(ls)]) + 1 ELSE 1,
                 MsgMissingNewline, "FORMAT")>>
    ELSE <<>>

\* The issue of the final-newline check of analyze_source, if any.
NewlineIssues(src, ls) ==
    IF src # <<>> /\ src[Len(src)] # "\n"
    THEN <<Issue(IF Len(ls) # 0 THEN Len(ls) ELSE 1,
                 IF ls # <<>> THEN Len(ls[Len(ls)]) + 1 ELSE 1,
                 MsgMissingNewline, "FORMAT")>>
    ELSE <<>>

(***************************************************************************)
(* _check_block_balance                                                    *)
(***************************************************************************)

\* Faulty variant: a closer that the top frame does not expect is reported and pops it.
BalanceTokenPopsMismatch(stk, token, idx, raw_line) ==
    IF token \in DOMAIN BLOCK_PAIRS
    THEN [stack |-> Append(stk, <<BLOCK_PAIRS[token], idx>>), yield |-> <<>>]
    ELSE IF token \in BLOCK_ENDINGS
    THEN IF stk = <<>>
         THEN [stack |-> stk,
               yield |-> <<Issue(idx, FindColumn(raw_line, token),
                                 MsgUnexpected(token), "SYNTAX")>>]
         ELSE LET expected == stk[Len(stk)][1]
                  start_line == stk[Len(stk)][2]
              IN  IF expected # token
                  THEN [stack |-> SubSeq(stk, 1, Len(stk) - 1),
                        yield |-> <<Issue(idx, FindColumn(raw_line, token),
                                          MsgExpected(expected, start_line), "SYNTAX")>>]
                  ELSE [stack |-> SubSeq(stk, 1, Len(stk) - 1), yield |-> <<>>]
    ELSE [stack |-> stk, yield |-> <<>>]

\* Faulty variant: a closer read while the stack is empty is passed over silently.
BalanceTokenSilentUnexpected(stk, token, idx, raw_line) ==
    IF token \in DOMAIN BLOCK_PAIRS
    THEN [stack |-> Append(stk, <<BLOCK_PAIRS[token], idx>>), yield |-> <<>>]
    ELSE IF token \in BLOCK_ENDINGS /\ stk # <<>>
    THEN LET expected == stk[Len(stk)][1]
             start_line == stk[Len(stk)][2]
         IN  IF expected # token
             THEN [stack |-> stk,
                   yield |-> <<Issue(idx, FindColumn(raw_line, token),
                                     MsgExpected(expected, start_line), "SYNTAX")>>]
             ELSE [stack |-> SubSeq(stk, 1, Len(stk) - 1), yield |-> <<>>]
    ELSE [stack |-> stk, yield |-> <<>>]

\* Faulty variant: a matching closing keyword removes the oldest frame.
BalanceTokenPopsBottom(stk, token, idx, raw_line) ==
    IF token \in DOMAIN BLOCK_PAIRS
    THEN [stack |-> Append(stk, <<BLOCK_PAIRS[token], idx>>), yield |-> <<>>]
    ELSE IF token \in BLOCK_ENDINGS
    THEN IF stk = <<>>
         THEN [stack |-> stk,
               yield |-> <<Issue(idx, FindColumn(raw_line, token),
                                 MsgUnexpected(token), "SYNTAX")>>]
         ELSE LET expected == stk[Len(stk)][1]
                  start_line == stk[Len(stk)][2]
              IN  IF expected # token
                  THEN [stack |-> stk,
                        yield |-> <<Issue(idx, FindColumn(raw_line, token),
                                          MsgExpected(expected, start_line), "SYNTAX")>>]
                  ELSE [stack |-> Tail(stk), yield |-> <<>>]
    ELSE [stack |-> stk, yield |-> <<>>]

\* The body of the loop over the tokens (lines 110-120) for one token: the
\* stack after it and the issues it yields.
BalanceToken(stk, token, idx, raw_line) ==
    IF token \in DOMAIN BLOCK_PAIRS
    THEN [stack |-> Append(stk, <<BLOCK_PAIRS[token], idx>>), yield |-> <<>>]
    ELSE IF token \in BLOCK_ENDINGS
    THEN IF stk = <<>>
         THEN [stack |-> stk,
               yield |-> <<Issue(idx, FindColumn(raw_line, token),
                                 MsgUnexpected(token), "SYNTAX")>>]
         ELSE LET expected == stk[Len(stk)][1]
                  start_line == stk[Len(stk)][2]
              IN  IF expected # token
                  THEN [stack |-> stk,
                        yield |-> <<Issue(idx, FindColumn(raw_line, token),
                                          MsgExpected(expected, start_line), "SYNTAX")>>]
                  ELSE [stack |-> SubSeq(stk, 1, Len(stk) - 1), yield |-> <<>>]
    ELSE [stack |-> stk, yield |-> <<>>]

\* Lines 109-120 reading the module-level tables as they are at this step.
BalanceTokenWith(pairs, endings, stk, token, idx, raw_line) ==
    IF token \in DOMAIN pairs
    THEN [stack |-> Append(stk, <<pairs[token], idx>>), yield |-> <<>>]
    ELSE IF token \in endings
    THEN IF stk = <<>>
         THEN [stack |-> stk,
               yield |-> <<Issue(idx, FindColumn(raw_line, token),
                                 MsgUnexpected(token), "SYNTAX")>>]
         ELSE LET expected == stk[Len(stk)][1]
                  start_line == stk[Len(stk)][2]
              IN  IF expected # token
                  THEN [stack |-> stk,
                        yield |-> <<Issue(idx, FindColumn(raw_line, token),
                                          MsgExpected(expected, start_line), "SYNTAX")>>]
                  ELSE [stack |-> SubSeq(stk, 1, Len(stk) - 1), yield |-> <<>>]
    ELSE [stack |-> stk, yield |-> <<>>]

\* Faulty variant: line and column given in the wrong order.
UnclosedIssueSwapped(frame) == Issue(1, frame[2], MsgUnclosed(frame[1]), "SYNTAX")

\* Line 122: the issue of a frame left on the stack.
UnclosedIssue(frame) == Issue(frame[2], 1, MsgUnclosed(frame[1]), "SYNTAX")

RECURSIVE BalanceTokens(_, _, _, _)
\* The loop over the tokens of one line, run to its end.
BalanceTokens(stk, toks, idx, raw_line) ==
    IF toks = <<>> THEN [stack |-> stk, yield |-> <<>>]
    ELSE LET r == BalanceToken(stk, Head(toks), idx, raw_line)
             rest == BalanceTokens(r.stack, Tail(toks), idx, raw_line)
         IN  [stack |-> rest.stack, yield |-> r.yield \o rest.yield]

RECURSIVE BalanceLines(_, _, _)
\* The loop over the lines from line idx on, run to its end.
BalanceLines(ls, idx, stk) ==
    IF idx > Len(ls) THEN [stack |-> stk, yield |-> <<>>]
    ELSE LET r == BalanceTokens(stk, Tokenize(StripComments(ls[idx])), idx, ls[idx])
             rest == BalanceLines(ls, idx + 1, r.stack)
         IN  [stack |-> rest.stack, yield |-> r.yield \o rest.yield]

\* _check_block_balance(lines) run to exhaustion: the stack it ends with and
\* the issues it yields.
CheckBlockBalance(ls) ==
    LET r == BalanceLines(ls, 1, <<>>)
    IN  [stack |-> r.stack,
         yield |-> r.yield \o [k \in 1..Len(r.stack) |-> UnclosedIssue(r.stack[k])]]

(***************************************************************************)
(* analyze_source as a function                                            *)
(***************************************************************************)

RECURSIVE CheckIndentationFrom(_, _, _, _)
\* _check_indentation run to exhaustion from line idx on.
CheckIndentationFrom(ls, idx, prefer, size) ==
    IF idx > Len(ls) THEN <<>>
    ELSE IndentIssues(ls[idx], idx, prefer, size)
            \o CheckIndentationFrom(ls, idx + 1, prefer, size)

RECURSIVE CheckTrailingFrom(_, _)
\* _check_trailing_whitespace run to exhaustion from line idx on.
CheckTrailingFrom(ls, idx) ==
    IF idx > Len(ls) THEN <<>>
    ELSE TrailingIssues(ls[idx], idx) \o CheckTrailingFrom(ls, idx + 1)

\* analyze_source(source, prefer_spaces, indent_size): the list it returns.
AnalyzeSource(src, prefer, size) ==
    LET ls == SplitLines(src)
    IN  NewlineIssues(src, ls)
           \o CheckIndentationFrom(ls, 1, prefer, size)
           \o CheckTrailingFrom(ls, 1)
           \o CheckBlockBalance(ls).yield

(***************************************************************************)
(* Inputs: sources built from small pieces, and configurations             *)
(***************************************************************************)

MaxBlockPieces == 5
MaxStringPieces == 4
MaxIndentPieces == 5
MaxLinePieces == 4
MaxWordPieces == 4
MaxIndentSize == 2

\* indent_size: int = 4 (the default of analyze_source).
DefaultIndentSize == 4

\* Block keywords, each followed by a space, and line ends.
BlockPieces ==
    {KwDo \o <<" ">>, KwRepeat \o <<" ">>, KwEnd \o <<" ">>, KwUntil \o <<" ">>, <<"\n">>}

\* Quotes, backslashes, escaped quotes, comment markers and keywords next to them.
StringPieces ==
    {<<"\"">>, <<"'">>, <<"\\">>, <<"\\", "\"">>, <<"-", "-">>, KwEnd, KwDo, <<"\n">>}

\* Indentation characters around a keyword.
IndentPieces == {<<" ">>, <<"\t">>, KwEnd, <<"\n">>}

\* Line boundaries around ordinary text.
LinePieces == {<<"x">>, <<" ">>, <<"\n">>, <<"\r">>}

\* Words with underscores, digits and single dashes between them.
WordPieces == {KwThen, KwFunction, KwEnd, <<"_">>, <<"1">>, <<"-">>}

RECURSIVE Flatten(_)
\* The pieces of ps joined into one string.
Flatten(ps) == IF ps = <<>> THEN <<>> ELSE Head(ps) \o Flatten(Tail(ps))

(***************************************************************************)
(* The run of analyze_source                                               *)
(***************************************************************************)

VARIABLES
    source,         \* the argument source
    prefer_spaces,  \* the argument prefer_spaces
    indent_size,    \* the argument indent_size
    pc,             \* the statement of analyze_source being executed
    lines,          \* source.splitlines()
    idx,            \* the loop index of the running check (number of lines read)
    tokens,         \* the tokens of line idx that _check_block_balance has not read yet
    stack,          \* the stack of _check_block_balance: <<expected, start_line>> frames
    issues,         \* the list issues of analyze_source
    paths,          \* main: args.paths
    path_idx,       \* main: the number of paths the loop has handled
    exit_code,      \* main: exit_code
    reports,        \* main: what was printed for each path handled
    main_pc,        \* main: "loop" while the loop runs, "returned" after it
    runs,           \* concurrent invocations of analyze_source: their local states
    block_pairs,    \* the module global _BLOCK_PAIRS the invocations share
    block_endings   \* the module global _BLOCK_ENDINGS the invocations share

\* The state of one call of analyze_source.
analysis == <<source, prefer_spaces, indent_size, pc, lines, idx, tokens, stack, issues>>

\* The state of main.
cli == <<paths, path_idx, exit_code, reports, main_pc>>

\* The state of the concurrent invocations.
conc == <<runs, block_pairs, block_endings>>

vars == <<analysis, cli, conc>>

args == <<source, prefer_spaces, indent_size>>

\* main is not running.
NoMain ==
    /\ paths = <<>>
    /\ path_idx = 0
    /\ exit_code = 0
    /\ reports = <<>>
    /\ main_pc = "idle"

\* No concurrent invocations are running.
NoInvocations ==
    /\ runs = <<>>
    /\ block_pairs = BLOCK_PAIRS
    /\ block_endings = BLOCK_ENDINGS

\* The argument source is a string of at most n pieces of S.
SourceFrom(S, n) == \E k \in 0..n : \E ps \in [1..k -> S] : source = Flatten(ps)

Init ==
    /\ \/ /\ \/ SourceFrom(BlockPieces, MaxBlockPieces)
             \/ SourceFrom(StringPieces, MaxStringPieces)
             \/ SourceFrom(LinePieces, MaxLinePieces)
             \/ SourceFrom(WordPieces, MaxWordPieces)
          /\ prefer_spaces = TRUE
          /\ indent_size = DefaultIndentSize
       \/ /\ SourceFrom(IndentPieces, MaxIndentPieces)
          /\ prefer_spaces \in BOOLEAN
          /\ indent_size \in 1..MaxIndentSize
    /\ pc = "start"
    /\ lines = <<>>
    /\ idx = 0
    /\ tokens = <<>>
    /\ stack = <<>>
    /\ issues = <<>>
    /\ NoMain
    /\ NoInvocations

\* analyze_source, lines 50-53: split the source, check the final newline.
Start ==
    /\ pc = "start"
    /\ lines' = SplitLines(source)
    /\ issues' = issues \o NewlineIssues(source, SplitLines(source))
    /\ pc' = "indentation"
    /\ idx' = 0
    /\ UNCHANGED <<args, cli, conc, tokens, stack>>

\* One iteration of the loop of _check_indentation.
CheckIndentation ==
    /\ pc = "indentation"
    /\ idx < Len(lines)
    /\ idx' = idx + 1
    /\ issues' = issues \o IndentIssues(lines[idx + 1], idx + 1, prefer_spaces, indent_size)
    /\ UNCHANGED <<args, cli, conc, pc, lines, tokens, stack>>

\* Faulty variant: the analysis returns early once an issue was found.
IndentationDoneStopsOnIssues ==
    /\ pc = "indentation"
    /\ idx = Len(lines)
    /\ pc' = IF issues # <<>> THEN "done" ELSE "trailing"
    /\ idx' = 0
    /\ UNCHANGED <<source, prefer_spaces, indent_size, cli, conc, lines, tokens, stack, issues>>

\* _check_indentation is exhausted: _check_trailing_whitespace starts.
IndentationDone ==
    /\ pc = "indentation"
    /\ idx = Len(lines)
    /\ pc' = "trailing"
    /\ idx' = 0
    /\ UNCHANGED <<args, cli, conc, lines, tokens, stack, issues>>

\* Faulty variant: the issues of the check are put in front of the list.
CheckTrailingWhitespacePrepends ==
    /\ pc = "trailing"
    /\ idx < Len(lines)
    /\ idx' = idx + 1
    /\ issues' = TrailingIssues(lines[idx + 1], idx + 1) \o issues
    /\ UNCHANGED <<source, prefer_spaces, indent_size, cli, conc, pc, lines, tokens, stack>>

\* One iteration of the loop of _check_trailing_whitespace.
CheckTrailingWhitespace ==
    /\ pc = "trailing"
    /\ idx < Len(lines)
    /\ idx' = idx + 1
    /\ issues' = issues \o TrailingIssues(lines[idx + 1], idx + 1)
    /\ UNCHANGED <<args, cli, conc, pc, lines, tokens, stack>>

\* _check_trailing_whitespace is exhausted: _check_block_balance starts.
TrailingDone ==
    /\ pc = "trailing"
    /\ idx = Len(lines)
    /\ pc' = "balance"
    /\ idx' = 0
    /\ stack' = <<>>
    /\ UNCHANGED <<args, cli, conc, lines, tokens, issues>>

\* _check_block_balance, lines 106-108: the next line is stripped and tokenized.
ScanLine ==
    /\ pc = "balance"
    /\ tokens = <<>>
    /\ idx < Len(lines)
    /\ idx' = idx + 1
    /\ tokens' = Tokenize(StripComments(lines[idx + 1]))
    /\ UNCHANGED <<args, cli, conc, pc, lines, stack, issues>>

\* The token at the head of tokens is read: the effect of lines 110-120 on it.
ReadToken ==
    LET r == BalanceToken(stack, Head(tokens), idx, lines[idx])
    IN  /\ stack' = r.stack
        /\ issues' = issues \o r.yield
        /\ tokens' = Tail(tokens)
        /\ UNCHANGED <<args, cli, conc, pc, lines, idx>>

\* Lines 110-111: an opening keyword pushes a frame.
OpenBlock ==
    /\ pc = "balance"
    /\ tokens # <<>>
    /\ Head(tokens) \in DOMAIN BLOCK_PAIRS
    /\ ReadToken

\* Lines 113-115: a closing keyword while the stack is empty.
UnexpectedCloser ==
    /\ pc = "balance"
    /\ tokens # <<>>
    /\ Head(tokens) \notin DOMAIN BLOCK_PAIRS
    /\ Head(tokens) \in BLOCK_ENDINGS
    /\ stack = <<>>
    /\ ReadToken

\* Lines 116-119: a closing keyword that the top frame does not expect.
MismatchedCloser ==
    /\ pc = "balance"
    /\ tokens # <<>>
    /\ Head(tokens) \notin DOMAIN BLOCK_PAIRS
    /\ Head(tokens) \in BLOCK_ENDINGS
    /\ stack # <<>>
    /\ stack[Len(stack)][1] # Head(tokens)
    /\ ReadToken

\* Lines 116-120: a closing keyword that the top frame expects pops it.
CloseBlock ==
    /\ pc = "balance"
    /\ tokens # <<>>
    /\ Head(tokens) \notin DOMAIN BLOCK_PAIRS
    /\ Head(tokens) \in BLOCK_ENDINGS
    /\ stack # <<>>
    /\ stack[Len(stack)][1] = Head(tokens)
    /\ ReadToken

\* Lines 109-112: a token that is no block keyword is passed over.
OtherToken ==
    /\ pc = "balance"
    /\ tokens # <<>>
    /\ Head(tokens) \notin DOMAIN BLOCK_PAIRS
    /\ Head(tokens) \notin BLOCK_ENDINGS
    /\ ReadToken

\* The loop over the lines is exhausted: the loop over the stack starts.
ScanDone ==
    /\ pc = "balance"
    /\ tokens = <<>>
    /\ idx = Len(lines)
    /\ pc' = "unclosed"
    /\ idx' = 0
    /\ UNCHANGED <<args, cli, conc, lines, tokens, stack, issues>>

\* Lines 121-122: one iteration of the loop over the frames left on the stack.
ReportUnclosed ==
    /\ pc = "unclosed"
    /\ idx < Len(stack)
    /\ idx' = idx + 1
    /\ issues' = Append(issues, UnclosedIssue(stack[idx + 1]))
    /\ UNCHANGED <<args, cli, conc, pc, lines, tokens, stack>>

\* _check_block_balance is exhausted: analyze_source returns issues.
Return ==
    /\ pc = "unclosed"
    /\ idx = Len(stack)
    /\ pc' = "done"
    /\ UNCHANGED <<args, cli, conc, lines, idx, tokens, stack, issues>>

Next ==
    \/ Start
    \/ CheckIndentation
    \/ IndentationDone
    \/ CheckTrailingWhitespace
    \/ TrailingDone
    \/ ScanLine
    \/ OpenBlock
    \/ UnexpectedCloser
    \/ MismatchedCloser
    \/ CloseBlock
    \/ OtherToken
    \/ ScanDone
    \/ ReportUnclosed
    \/ Return

Spec == Init /\ [][Next]_vars

(***************************************************************************)
(* main (sensei_lua/__main__.py)                                           *)
(***************************************************************************)

MaxPaths == 3

\* The paths given on the command line.
Files == {"missing.lua", "clean.lua", "bad.lua"}

\* path.exists()
PathExists(path) == path # "missing.lua"

\* Path(path).read_text(): a file without issues and a file with issues.
ReadText(path) ==
    IF path = "clean.lua" THEN KwDo \o <<" ">> \o KwEnd \o <<"\n">> ELSE KwEnd

\* analyze_file
AnalyzeFile(path, prefer, size) == AnalyzeSource(ReadText(path), prefer, size)

\* parse_args: one or more paths, --allow-tabs or not, the default --indent-size.
InitMain ==
    /\ \E k \in 1..MaxPaths : paths \in [1..k -> Files]
    /\ prefer_spaces \in BOOLEAN
    /\ indent_size = DefaultIndentSize
    /\ path_idx = 0
    /\ exit_code = 0
    /\ reports = <<>>
    /\ main_pc = "loop"
    /\ source = <<>>
    /\ pc = "idle"
    /\ lines = <<>>
    /\ idx = 0
    /\ tokens = <<>>
    /\ stack = <<>>
    /\ issues = <<>>
    /\ NoInvocations

\* main, lines 30-33: the next path does not exist.
MissingPath ==
    /\ main_pc = "loop"
    /\ path_idx < Len(paths)
    /\ ~PathExists(paths[path_idx + 1])
    /\ reports' = Append(reports, [stream |-> "stderr", path |-> paths[path_idx + 1],
                                   issues |-> <<>>])
    /\ exit_code' = 2
    /\ path_idx' = path_idx + 1
    /\ UNCHANGED <<analysis, conc, paths, main_pc>>

\* main, lines 34-39: the next path exists and is analyzed.
AnalyzePath ==
    /\ main_pc = "loop"
    /\ path_idx < Len(paths)
    /\ PathExists(paths[path_idx + 1])
    /\ LET found == AnalyzeFile(paths[path_idx + 1], prefer_spaces, indent_size)
       IN  /\ reports' = Append(reports, [stream |-> "stdout", path |-> paths[path_idx + 1],
                                          issues |-> found])
           /\ exit_code' = IF found # <<>> THEN 1 ELSE exit_code
    /\ path_idx' = path_idx + 1
    /\ UNCHANGED <<analysis, conc, paths, main_pc>>

\* main, line 40: return exit_code.
MainReturn ==
    /\ main_pc = "loop"
    /\ path_idx = Len(paths)
    /\ main_pc' = "returned"
    /\ UNCHANGED <<analysis, conc, paths, path_idx, exit_code, reports>>

NextMain ==
    \/ MissingPath
    \/ AnalyzePath
    \/ MainReturn

SpecMain == InitMain /\ [][NextMain]_vars

(***************************************************************************)
(* Concurrent invocations of analyze_source                                *)
(*                                                                         *)
(* Every invocation keeps source, lines, tokens, stack and issues in its   *)
(* own locals, one record of runs each.  The module-level _BLOCK_PAIRS and *)
(* _BLOCK_ENDINGS are the variables block_pairs and block_endings, which   *)
(* every invocation reads when it handles a token.  A step is one          *)
(* statement of one invocation, as in Next.                                *)
(***************************************************************************)

Invocations == {1, 2}

MaxConcPieces == 2

ConcPieces == {<<"d", "o", " ">>, <<"e", "n", "d", " ">>, <<"u", "n", "t", "i", "l", " ">>, <<"\n">>}

ConcSources == UNION {{Flatten(ps) : ps \in [1..k -> ConcPieces]} : k \in 0..MaxConcPieces}

\* The locals of an invocation at its call.
Called(src, prefer, size) ==
    [source |-> src, prefer_spaces |-> prefer, indent_size |-> size,
     pc |-> "start", lines |-> <<>>, idx |-> 0, tokens |-> <<>>, stack |-> <<>>,
     issues |-> <<>>]

\* The locals of an invocation after its next statement.
StepOf(r, pairs, endings) ==
    CASE r.pc = "start" ->
            [r EXCEPT !.lines = SplitLines(r.source),
                      !.issues = r.issues \o NewlineIssues(r.source, SplitLines(r.source)),
                      !.pc = "indentation",
                      !.idx = 0]
      [] r.pc = "indentation" /\ r.idx < Len(r.lines) ->
            [r EXCEPT !.idx = r.idx + 1,
                      !.issues = r.issues \o IndentIssues(r.lines[r.idx + 1], r.idx + 1,
                                                          r.prefer_spaces, r.indent_size)]
      [] r.pc = "indentation" /\ r.idx = Len(r.lines) ->
            [r EXCEPT !.pc = "trailing", !.idx = 0]
      [] r.pc = "trailing" /\ r.idx < Len(r.lines) ->
            [r EXCEPT !.idx = r.idx + 1,
                      !.issues = r.issues \o TrailingIssues(r.lines[r.idx + 1], r.idx + 1)]
      [] r.pc = "trailing" /\ r.idx = Len(r.lines) ->
            [r EXCEPT !.pc = "balance", !.idx = 0, !.stack = <<>>]
      [] r.pc = "balance" /\ r.tokens = <<>> /\ r.idx < Len(r.lines) ->
            [r EXCEPT !.idx = r.idx + 1,
                      !.tokens = Tokenize(StripComments(r.lines[r.idx + 1]))]
      [] r.pc = "balance" /\ r.tokens # <<>> ->
            LET b == BalanceTokenWith(pairs, endings, r.stack, Head(r.tokens), r.idx,
                                      r.lines[r.idx])
            IN  [r EXCEPT !.stack = b.stack,
                          !.issues = r.issues \o b.yield,
                          !.tokens = Tail(r.tokens)]
      [] r.pc = "balance" /\ r.tokens = <<>> /\ r.idx = Len(r.lines) ->
            [r EXCEPT !.pc = "unclosed", !.idx = 0]
      [] r.pc = "unclosed" /\ r.idx < Len(r.stack) ->
            [r EXCEPT !.idx = r.idx + 1,
                      !.issues = Append(r.issues, UnclosedIssue(r.stack[r.idx + 1]))]
      [] r.pc = "unclosed" /\ r.idx = Len(r.stack) ->
            [r EXCEPT !.pc = "done"]

\* Two invocations are called, each with a source of its own and the
\* default configuration; none has executed a statement yet.
InitConc ==
    /\ runs \in [Invocations -> {Called(src, TRUE, DefaultIndentSize) : src \in ConcSources}]
    /\ block_pairs = BLOCK_PAIRS
    /\ block_endings = BLOCK_ENDINGS
    /\ source = <<>>
    /\ prefer_spaces = TRUE
    /\ indent_size = DefaultIndentSize
    /\ pc = "idle"
    /\ lines = <<>>
    /\ idx = 0
    /\ tokens = <<>>
    /\ stack = <<>>
    /\ issues = <<>>
    /\ NoMain

\* Faulty variant: the frame stack is one module-level list that all
\* invocations push to and pop from.
ConcStepSharedStack(i) ==
    /\ runs[i].pc # "done"
    /\ LET r == StepOf(runs[i], block_pairs, block_endings)
       IN  runs' = [j \in Invocations |->
                       IF j = i THEN r ELSE [runs[j] EXCEPT !.stack = r.stack]]
    /\ UNCHANGED <<analysis, cli, block_pairs, block_endings>>

\* Invocation i executes its next statement.
ConcStep(i) ==
    /\ runs[i].pc # "done"
    /\ runs' = [runs EXCEPT ![i] = StepOf(runs[i], block_pairs, block_endings)]
    /\ UNCHANGED <<analysis, cli, block_pairs, block_endings>>

NextConc == \E i \in Invocations : ConcStep(i)

SpecConc == InitConc /\ [][NextConc]_vars

(***************************************************************************)
(* Notions the properties are stated with                                  *)
(***************************************************************************)

Whitespace == {" ", "\t"}

Openers == {KwFunction, KwDo, KwThen, KwRepeat}

Closers == {KwEnd, KwUntil}

Keywords == Openers \cup Closers

\* The closer c closes a block opened by o.
Matches(o, c) ==
    \/ o \in {KwFunction, KwDo, KwThen} /\ c = KwEnd
    \/ o = KwRepeat /\ c = KwUntil

RECURSIVE Cancel(_)
\* ks with adjacent opener/closer pairs removed until none is left.
Cancel(ks) ==
    LET hits == {i \in 1..(Len(ks) - 1) : Matches(ks[i], ks[i + 1])}
    IN  IF hits = {} THEN ks
        ELSE LET i == CHOOSE j \in hits : TRUE
             IN  Cancel(SubSeq(ks, 1, i - 1) \o SubSeq(ks, i + 2, Len(ks)))

\* A sequence of keywords is balanced: properly nested, nothing left open.
Balanced(ks) == Cancel(ks) = <<>>

RECURSIVE LexFrom(_, _, _, _)
\* The lexical class of every character of a line, from the two-state
\* automaton NORMAL / IN_STRING(quote): "code", "string" (quotes, contents and
\* escaped characters) or "comment" (the marker and what follows it).
LexFrom(line, i, quote, out) ==
    IF i > Len(line) THEN out
    ELSE IF quote = ""
    THEN IF line[i] = "-" /\ i < Len(line) /\ line[i + 1] = "-"
         THEN out \o [k \in 1..(Len(line) - i + 1) |-> "comment"]
         ELSE IF line[i] \in {"\"", "'"}
         THEN LexFrom(line, i + 1, line[i], Append(out, "string"))
         ELSE LexFrom(line, i + 1, "", Append(out, "code"))
    ELSE IF line[i] = "\\"
    THEN IF i < Len(line)
         THEN LexFrom(line, i + 2, quote, out \o <<"string", "string">>)
         ELSE Append(out, "string")
    ELSE IF line[i] = quote
    THEN LexFrom(line, i + 1, "", Append(out, "string"))
    ELSE LexFrom(line, i + 1, quote, Append(out, "string"))

LexClass(line) == LexFrom(line, 1, "", <<>>)

\* The line with every character of a string or a comment replaced by a space.
CodeView(line) ==
    LET cls == LexClass(line)
    IN  [i \in 1..Len(line) |-> IF cls[i] = "code" THEN line[i] ELSE " "]

\* The block keywords of a line that stand outside strings and comments.
KeywordTokens(line) == SelectSeq(Tokenize(CodeView(line)), LAMBDA w : w \in Keywords)

RECURSIVE KeywordTokensFrom(_, _)
KeywordTokensFrom(ls, n) ==
    IF n > Len(ls) THEN <<>> ELSE KeywordTokens(ls[n]) \o KeywordTokensFrom(ls, n + 1)

\* The block keywords of the source outside strings and comments, in order.
SourceKeywords == KeywordTokensFrom(lines, 1)

\* The positions of a line covered by the text of a block keyword that lies
\* wholly inside a string or a comment.
HiddenKeywordPositions(line) ==
    LET cls == LexClass(line)
    IN  {i \in 1..Len(line) :
            \E kw \in Keywords : \E s \in 1..i :
                /\ i < s + Len(kw)
                /\ s + Len(kw) - 1 <= Len(line)
                /\ SubSeq(line, s, s + Len(kw) - 1) = kw
                /\ \A j \in s..(s + Len(kw) - 1) : cls[j] # "code"}

\* The line with those keyword texts replaced by spaces.
Blanked(line) ==
    LET hidden == HiddenKeywordPositions(line)
    IN  [i \in 1..Len(line) |-> IF i \in hidden THEN " " ELSE line[i]]

BlankedLines == [n \in 1..Len(lines) |-> Blanked(lines[n])]

SyntaxIssues(iss) == SelectSeq(iss, LAMBDA x : x.code = "SYNTAX")

\* Issues without their column.
NoColumn(iss) ==
    [k \in 1..Len(iss) |-> [line |-> iss[k].line, message |-> iss[k].message, code |-> iss[k].code]]

FmtOf(iss) == {iss[k].message.fmt : k \in 1..Len(iss)}

(***************************************************************************)
(* Properties                                                              *)
(***************************************************************************)

\* C1: when the block keywords of the source outside strings and comments
\* form a balanced sequence (every function/do/then closed by a later end,
\* every repeat by a later until, properly nested), the finished run has
\* produced no SYNTAX issue and has ended with an empty stack.
C1_BalancedSourceIsClean ==
    (pc = "done" /\ Balanced(SourceKeywords))
        => /\ SyntaxIssues(issues) = <<>>
           /\ stack = <<>>

\* A finished run on a balanced source with a block nested in another one.
C1_Witness ==
    /\ pc = "done"
    /\ Len(SourceKeywords) >= 4
    /\ SourceKeywords[1] \in Openers
    /\ SourceKeywords[2] \in Openers
    /\ Balanced(SourceKeywords)

\* C2 (as stated): the stack and the SYNTAX issues of the finished run are
\* those of the run on the source in which every block keyword text inside a
\* string or after a comment marker is replaced by spaces.
C2_HiddenKeywordsAsSpaces ==
    pc = "done"
        => LET r == CheckBlockBalance(BlankedLines)
           IN  /\ stack = r.stack
               /\ SyntaxIssues(issues) = r.yield

\* C2 (amended): a block keyword text inside a string or after a comment
\* marker never pushes or pops a frame and never produces a SYNTAX issue: the
\* stack, and the line, message and code of every SYNTAX issue, in order, are
\* those of the run on the source with that text replaced by spaces.
C2_HiddenKeywordsAsSpacesUpToColumn ==
    pc = "done"
        => LET r == CheckBlockBalance(BlankedLines)
           IN  /\ stack = r.stack
               /\ NoColumn(SyntaxIssues(issues)) = NoColumn(r.yield)

\* A finished run on a source with a keyword inside a string after an escaped
\* quote, and a SYNTAX issue from a keyword outside it.
C2_Witness ==
    /\ pc = "done"
    /\ SyntaxIssues(issues) # <<>>
    /\ \E n \in 1..Len(lines) :
          LET line == lines[n]
              cls == LexClass(line)
          IN  \E i \in 1..(Len(line) - 1) :
                 /\ line[i] = "\\"
                 /\ cls[i] = "string"
                 /\ line[i + 1] \in {"\"", "'"}
                 /\ \E j \in (i + 2)..Len(line) : j \in HiddenKeywordPositions(line)

\* The token being read is a closing keyword.
ReadingCloser == pc = "balance" /\ tokens # <<>> /\ Head(tokens) \in Closers

\* This step appends exactly the issue (line, message, code) at some column.
Emits(line, message, code) ==
    /\ Len(issues') = Len(issues) + 1
    /\ SubSeq(issues', 1, Len(issues)) = issues
    /\ issues'[Len(issues')].line = line
    /\ issues'[Len(issues')].message = message
    /\ issues'[Len(issues')].code = code

\* C3: reading a closing keyword that the top frame does not expect emits
\* exactly one SYNTAX issue "Expected '<expected>' opened at line <N>" on the
\* closer's line, with the expected keyword and opening line of the top
\* frame, and leaves the stack unchanged; reading a closing keyword that the
\* top frame expects pops that frame and emits nothing.
C3_MismatchKeepsFrame ==
    [][/\ (ReadingCloser /\ stack # <<>> /\ stack[Len(stack)][1] # Head(tokens))
            => /\ Emits(idx,
                        [fmt |-> "Expected '{expected}' opened at line {start_line}",
                         kw |-> stack[Len(stack)][1], n |-> stack[Len(stack)][2]],
                        "SYNTAX")
               /\ stack' = stack
       /\ (ReadingCloser /\ stack # <<>> /\ stack[Len(stack)][1] = Head(tokens))
            => /\ issues' = issues
               /\ stack' = SubSeq(stack, 1, Len(stack) - 1)
      ]_vars

\* A finished run in which a closer was reported against a frame that a later
\* closer popped: every frame is closed, one "Expected" issue was emitted.
C3_Witness ==
    /\ pc = "done"
    /\ stack = <<>>
    /\ FmtOf(SyntaxIssues(issues)) = {"Expected '{expected}' opened at line {start_line}"}

\* The lines of the source that hold a block keyword outside strings and comments.
KeywordLines == {n \in 1..Len(lines) : KeywordTokens(lines[n]) # <<>>}

\* C4: reading a closing keyword while the stack is empty emits exactly one
\* SYNTAX issue "Unexpected '<token>'" on that token's line and leaves the
\* stack empty; and a source whose only block keyword is one closer ends with
\* exactly that one SYNTAX issue.
C4_UnexpectedCloser ==
    /\ [][(ReadingCloser /\ stack = <<>>)
            => /\ Emits(idx, [fmt |-> "Unexpected '{token}'", kw |-> Head(tokens), n |-> 0],
                        "SYNTAX")
               /\ stack' = <<>>
         ]_vars
    /\ [](   (pc = "done" /\ Len(SourceKeywords) = 1 /\ SourceKeywords[1] \in Closers)
          => /\ Len(SyntaxIssues(issues)) = 1
             /\ SyntaxIssues(issues)[1].message
                  = [fmt |-> "Unexpected '{token}'", kw |-> SourceKeywords[1], n |-> 0]
             /\ KeywordLines = {SyntaxIssues(issues)[1].line})

\* A finished run on a source whose only block keyword is "until", on line 2.
C4_Witness ==
    /\ pc = "done"
    /\ SourceKeywords = <<KwUntil>>
    /\ KeywordLines = {2}

\* C5: when the run is finished, the SYNTAX issues end with one "Unclosed
\* block expecting '<expected>'" issue per frame left on the stack, at the
\* frame's opening line and column 1, in stack order from bottom to top; no
\* SYNTAX issue before them is an "Unclosed block" issue; and a source whose
\* only block keyword is one opener ends with exactly that one SYNTAX issue.
C5_UnclosedBlocksLast ==
    pc = "done"
        => LET syn == SyntaxIssues(issues)
               before == Len(syn) - Len(stack)
           IN  /\ before >= 0
               /\ \A k \in 1..Len(stack) :
                     syn[before + k]
                        = [line |-> stack[k][2], column |-> 1, code |-> "SYNTAX",
                           message |-> [fmt |-> "Unclosed block expecting '{expected}'",
                                        kw |-> stack[k][1], n |-> 0]]
               /\ \A k \in 1..before :
                     syn[k].message.fmt # "Unclosed block expecting '{expected}'"
               /\ (Len(SourceKeywords) = 1 /\ SourceKeywords[1] \in Openers)
                     => /\ Len(syn) = 1
                        /\ Matches(SourceKeywords[1], syn[1].message.kw)
                        /\ KeywordLines = {syn[1].line}

\* A finished run with two frames left open on different lines after an
\* "Expected" issue.
C5_Witness ==
    /\ pc = "done"
    /\ Len(stack) = 2
    /\ stack[1][2] < stack[2][2]
    /\ stack[1][1] # stack[2][1]
    /\ Len(SyntaxIssues(issues)) = 3

IssuesWith(fmt) == SelectSeq(issues, LAMBDA x : x.message.fmt = fmt)

\* The INDENT issues reported for line n.
IndentIssuesAt(n) == SelectSeq(issues, LAMBDA x : x.code = "INDENT" /\ x.line = n)

\* C6: once the source is split, the issues hold a "Missing final newline"
\* issue exactly when the source is non-empty and its last character is not
\* a newline; there is then exactly one, a FORMAT issue at the last line with
\* column = length of the last line + 1.
C6_MissingFinalNewline ==
    pc # "start"
        => LET found == IssuesWith("Missing final newline")
           IN  IF source # <<>> /\ source[Len(source)] # "\n"
               THEN /\ Len(found) = 1
                    /\ lines # <<>>
                    /\ found[1].line = Len(lines)
                    /\ found[1].column = Len(lines[Len(lines)]) + 1
                    /\ found[1].code = "FORMAT"
               ELSE found = <<>>

\* A finished run on a source of several lines whose last character is a
\* carriage return: the last line is not empty and the issue is reported.
C6_Witness ==
    /\ pc = "done"
    /\ Len(lines) >= 2
    /\ lines[Len(lines)] # <<>>
    /\ source[Len(source)] = "\r"
    /\ IssuesWith("Missing final newline") # <<>>

\* The check an issue comes from: 0 final newline, 1 indentation, 2 trailing
\* whitespace, 3 block balance.
CheckOf(x) ==
    IF x.message.fmt = "Missing final newline" THEN 0
    ELSE IF x.code = "INDENT" THEN 1
    ELSE IF x.message.fmt = "Trailing whitespace" THEN 2
    ELSE IF x.code = "SYNTAX" THEN 3
    ELSE 4

\* C7: the issues are at every step extended at their end only, and the
\* result is the final-newline issue (if any), then the INDENT issues in
\* increasing line order, then the "Trailing whitespace" issues in increasing
\* line order, then the SYNTAX issues: never sorted by position across checks.
C7_IssuesInCheckOrder ==
    /\ [][SubSeq(issues', 1, Len(issues)) = issues]_vars
    /\ [](pc = "done"
            => /\ \A k \in 1..Len(issues) : CheckOf(issues[k]) \in 0..3
               /\ \A j, k \in 1..Len(issues) :
                     j < k => /\ CheckOf(issues[j]) <= CheckOf(issues[k])
                              /\ CheckOf(issues[k]) = 0 => FALSE
                              /\ (CheckOf(issues[j]) = CheckOf(issues[k])
                                    /\ CheckOf(issues[j]) \in {1, 2})
                                    => issues[j].line < issues[k].line)

\* A finished run with issues of all four checks, in which a SYNTAX issue of
\* line 1 follows an INDENT issue of line 2.
C7_Witness ==
    /\ pc = "done"
    /\ {CheckOf(issues[k]) : k \in 1..Len(issues)} = 0..3
    /\ \E j, k \in 1..Len(issues) :
          /\ j < k
          /\ issues[j].code = "INDENT" /\ issues[j].line = 2
          /\ issues[k].code = "SYNTAX" /\ issues[k].line = 1

\* The number of leading space/tab characters of a line.
LeadLen(line) ==
    CHOOSE k \in 0..Len(line) :
        /\ \A i \in 1..k : line[i] \in Whitespace
        /\ k = Len(line) \/ line[k + 1] \notin Whitespace

\* The leading space/tab characters of a line.
Lead(line) == {line[i] : i \in 1..LeadLen(line)}

\* The line is empty or holds only spaces and tabs.
IsBlank(line) == LeadLen(line) = Len(line)

\* C8: under every configuration, no line has more than one INDENT issue,
\* and a blank or whitespace-only line has none.
C8_AtMostOneIndentIssue ==
    \A n \in 1..Len(lines) :
        /\ Len(IndentIssuesAt(n)) <= 1
        /\ IsBlank(lines[n]) => IndentIssuesAt(n) = <<>>

\* A finished run, tabs permitted, over a whitespace-only line that mixes a
\* space and a tab and a line that has an INDENT issue.
C8_Witness ==
    /\ pc = "done"
    /\ ~prefer_spaces
    /\ \E n \in 1..Len(lines) : IsBlank(lines[n]) /\ Lead(lines[n]) = Whitespace
    /\ \E n \in 1..Len(lines) : IndentIssuesAt(n) # <<>>

\* C9: once the indentation check is over, a non-blank line whose leading
\* whitespace consists of tabs only has no INDENT issue when tabs are
\* permitted, and exactly one when they are not: "Tab indentation found
\* (expected spaces)" at the column of the first tab.
C9_TabOnlyIndentation ==
    pc \in {"trailing", "balance", "unclosed", "done"}
        => \A n \in 1..Len(lines) :
              (~IsBlank(lines[n]) /\ Lead(lines[n]) = {"\t"})
                 => IndentIssuesAt(n)
                      = IF prefer_spaces
                        THEN <<[line |-> n,
                                column |-> CHOOSE c \in 1..Len(lines[n]) :
                                              /\ lines[n][c] = "\t"
                                              /\ \A b \in 1..(c - 1) : lines[n][b] # "\t",
                                message |-> [fmt |-> "Tab indentation found (expected spaces)",
                                             kw |-> <<>>, n |-> 0],
                                code |-> "INDENT"]>>
                        ELSE <<>>

\* A finished run, tabs not permitted, over a line indented with two tabs.
C9_Witness ==
    /\ pc = "done"
    /\ prefer_spaces
    /\ \E n \in 1..Len(lines) :
          ~IsBlank(lines[n]) /\ Lead(lines[n]) = {"\t"} /\ LeadLen(lines[n]) = 2

\* C10: once the indentation check is over, under every configuration, a
\* non-blank line whose leading whitespace holds a space and a tab has
\* exactly one INDENT issue: "Mixed tabs and spaces in indentation" at
\* column 1.
C10_MixedIndentation ==
    pc \in {"trailing", "balance", "unclosed", "done"}
        => \A n \in 1..Len(lines) :
              (~IsBlank(lines[n]) /\ Lead(lines[n]) = Whitespace)
                 => IndentIssuesAt(n)
                      = <<[line |-> n, column |-> 1,
                           message |-> [fmt |-> "Mixed tabs and spaces in indentation",
                                        kw |-> <<>>, n |-> 0],
                           code |-> "INDENT"]>>

\* A finished run, tabs not permitted, over a line whose indentation is a
\* space and a tab and more, of a width no multiple of indent_size.
C10_Witness ==
    /\ pc = "done"
    /\ prefer_spaces
    /\ \E n \in 1..Len(lines) :
          /\ ~IsBlank(lines[n])
          /\ LeadLen(lines[n]) >= 2
          /\ lines[n][1] = " "
          /\ lines[n][2] = "\t"
          /\ LeadLen(lines[n]) % indent_size # 0

\* The "Trailing whitespace" issues reported for line n.
TrailingIssuesAt(n) ==
    SelectSeq(issues, LAMBDA x : x.message.fmt = "Trailing whitespace" /\ x.line = n)

\* The line without the spaces and tabs at its end.
WithoutTrailing(line) ==
    LET keep == CHOOSE k \in 0..Len(line) :
                   /\ \A i \in (k + 1)..Len(line) : line[i] \in Whitespace
                   /\ k = 0 \/ line[k] \notin Whitespace
    IN  SubSeq(line, 1, keep)

\* C11: once the trailing-whitespace check is over, a line has a "Trailing
\* whitespace" issue exactly when it ends in a space or a tab: one FORMAT
\* issue whose column is the length of the line; and the check of the line
\* with its trailing spaces and tabs removed yields no issue.
C11_TrailingWhitespace ==
    pc \in {"balance", "unclosed", "done"}
        => \A n \in 1..Len(lines) :
              /\ TrailingIssuesAt(n)
                    = IF lines[n] # <<>> /\ lines[n][Len(lines[n])] \in Whitespace
                      THEN <<[line |-> n, column |-> Len(lines[n]), code |-> "FORMAT",
                              message |-> [fmt |-> "Trailing whitespace",
                                           kw |-> <<>>, n |-> 0]]>>
                      ELSE <<>>
              /\ TrailingIssues(WithoutTrailing(lines[n]), n) = <<>>

\* A finished run over a line that ends in a tab after other text and a
\* line that ends in no whitespace.
C11_Witness ==
    /\ pc = "done"
    /\ \E n \in 1..Len(lines) :
          /\ Len(lines[n]) >= 2
          /\ lines[n][Len(lines[n])] = "\t"
          /\ WithoutTrailing(lines[n]) # <<>>
    /\ \E n \in 1..Len(lines) : lines[n] # <<>> /\ WithoutTrailing(lines[n]) = lines[n]

\* C12: every issue in the list has line >= 1, column >= 1 and a code among
\* FORMAT, INDENT and SYNTAX (never the default "GENERIC"), for every source
\* and every configuration with a positive indent_size.
C12_IssueFieldsValid ==
    \A k \in 1..Len(issues) :
        /\ issues[k].line >= 1
        /\ issues[k].column >= 1
        /\ issues[k].code \in {"FORMAT", "INDENT", "SYNTAX"}

\* A finished run, indent_size above 1, with an indentation width issue and
\* a SYNTAX issue whose column was looked up in the raw line.
C12_Witness ==
    /\ pc = "done"
    /\ indent_size > 1
    /\ \E k \in 1..Len(issues) :
          issues[k].message.fmt = "Indentation width should be a multiple of {indent_size}"
    /\ \E k \in 1..Len(issues) : issues[k].message.fmt = "Unexpected '{token}'"

\* C13: when main has returned, the exit status is 2 if at least one path
\* does not exist, wherever it stands in the list; otherwise 1 if at least
\* one file has issues and 0 if none has; and every path, also after a
\* missing one, was handled in order, the existing ones analyzed.
C13_ExitStatus ==
    main_pc = "returned"
        => /\ exit_code
                = IF \E k \in 1..Len(paths) : ~PathExists(paths[k]) THEN 2
                  ELSE IF \E k \in 1..Len(paths) :
                             AnalyzeFile(paths[k], prefer_spaces, indent_size) # <<>>
                  THEN 1
                  ELSE 0
           /\ Len(reports) = Len(paths)
           /\ \A k \in 1..Len(paths) :
                 /\ reports[k].path = paths[k]
                 /\ PathExists(paths[k]) => reports[k].stream = "stdout"

\* The place of a statement in the order in which analyze_source runs them.
RankOf(p) ==
    CASE p = "start" -> 0
      [] p = "indentation" -> 1
      [] p = "trailing" -> 2
      [] p = "balance" -> 3
      [] p = "unclosed" -> 4
      [] p = "done" -> 5

\* The statement analyze_source is at can be executed: a loop has a next
\* element to take or is exhausted, and the line and the top frame a token
\* is read against exist.
CanStep ==
    \/ pc = "start"
    \/ /\ pc \in {"indentation", "trailing"}
       /\ idx \in 0..Len(lines)
    \/ /\ pc = "balance"
       /\ tokens = <<>>
       /\ idx \in 0..Len(lines)
    \/ /\ pc = "balance"
       /\ tokens # <<>>
       /\ idx \in 1..Len(lines)
       /\ \/ Head(tokens) \in DOMAIN BLOCK_PAIRS
          \/ Head(tokens) \notin BLOCK_ENDINGS
          \/ stack = <<>>
          \/ stack[Len(stack)][1] \in BLOCK_ENDINGS
    \/ /\ pc = "unclosed"
       /\ idx \in 0..Len(stack)

\* C14: every call of analyze_source, whatever the source and the
\* configuration, comes to its return without stopping on the way: until it
\* has returned it can always take a step, and every step moves it forward
\* (to a later statement, or to a later line or frame of the same loop, or
\* to a shorter list of unread tokens of the same line), the loops being
\* bounded by the number of lines and frames; and the list it returns is the
\* final-newline issue, the issues of the indentation check over all lines,
\* those of the trailing-whitespace check over all lines and those of the
\* block-balance check over all lines: no check is cut short by the findings
\* of another.
C14_TerminatesWithAllChecks ==
    /\ [](pc # "done" => CanStep)
    /\ [](/\ pc \in {"start", "indentation", "trailing", "balance", "unclosed", "done"}
          /\ idx >= 0
          /\ pc \in {"indentation", "trailing", "balance"} => idx <= Len(lines)
          /\ pc \in {"unclosed", "done"} => idx <= Len(stack))
    /\ [][\/ RankOf(pc) < RankOf(pc')
          \/ /\ pc' = pc
             /\ idx < idx'
          \/ /\ pc' = pc
             /\ idx' = idx
             /\ Len(tokens') < Len(tokens)
         ]_vars
    /\ [](pc = "done" => issues = AnalyzeSource(source, prefer_spaces, indent_size))

\* A finished run over a line with an unterminated string that ends in a
\* backslash, with a stray closer, trailing whitespace and no final newline.
C14_Witness ==
    /\ pc = "done"
    /\ \E n \in 1..Len(lines) :
          /\ lines[n] # <<>>
          /\ lines[n][Len(lines[n])] = "\\"
          /\ LexClass(lines[n])[Len(lines[n])] = "string"
    /\ {"Unexpected '{token}'", "Missing final newline"} \subseteq FmtOf(issues)

\* C15: analyze_source is a pure function of (source, prefer_spaces,
\* indent_size).  No statement of an invocation changes the keyword pair
\* table or the set of closing keywords; a statement of one invocation
\* leaves the frame stack (and every other local) of the other invocation
\* as it was; and in every interleaving of the statements of two concurrent
\* invocations each of them returns the issue sequence that analyze_source
\* returns for its arguments when it runs alone.
C15_InvocationsIndependent ==
    /\ [][/\ block_pairs' = block_pairs
          /\ block_endings' = block_endings
          /\ \A i \in Invocations :
                runs'[i] # runs[i] => \A j \in Invocations \ {i} : runs'[j] = runs[j]
         ]_vars
    /\ [](/\ block_pairs = BLOCK_PAIRS
          /\ block_endings = BLOCK_ENDINGS
          /\ \A i \in Invocations :
                runs[i].pc = "done" =>
                   runs[i].issues = AnalyzeSource(runs[i].source, runs[i].prefer_spaces,
                                                  runs[i].indent_size))

\* Both invocations have returned; the first opened a block it never closed,
\* the second met a closing keyword with its own stack empty.
C15_Witness ==
    /\ \A i \in Invocations : runs[i].pc = "done"
    /\ runs[1].stack # <<>>
    /\ "Unclosed block expecting '{expected}'" \in FmtOf(runs[1].issues)
    /\ runs[2].stack = <<>>
    /\ "Unexpected '{token}'" \in FmtOf(runs[2].issues)

\* The column of the comment marker of a line that stands outside strings,
\* or one past the end of the line when it has none.
MarkerColumn(line) ==
    LET cls == LexClass(line)
        at == {i \in 1..Len(line) : cls[i] = "comment"}
    IN  IF at = {} THEN Len(line) + 1 ELSE CHOOSE i \in at : \A j \in at : i <= j

\* C16: _strip_comments preserves column alignment.  For the line that
\* _check_block_balance has just stripped: when it has no comment marker
\* outside a string the output is as long as the line, every character of a
\* string literal (quotes, contents, escaped characters) is one space in the
\* output and every character outside strings stands at its own column;
\* when it has a marker the output is that same-length text cut off at the
\* column of the marker.
C16_StripKeepsColumns ==
    (pc = "balance" /\ idx >= 1) =>
        LET line == lines[idx]
            out == StripComments(line)
        IN  /\ MarkerColumn(line) > Len(line) => Len(out) = Len(line)
            /\ out = SubSeq(CodeView(line), 1, MarkerColumn(line) - 1)

\* Two consecutive dashes stand inside a string of the line.
DashesInString(line) ==
    \E i \in 1..(Len(line) - 1) :
        /\ line[i] = "-"
        /\ line[i + 1] = "-"
        /\ LexClass(line)[i] = "string"
        /\ LexClass(line)[i + 1] = "string"

\* A quote stands after the comment marker of the line.
QuoteAfterMarker(line) ==
    \E i \in (MarkerColumn(line) + 2)..Len(line) : line[i] \in {"\"", "'"}

\* C17: in _strip_comments the string state takes precedence over comment
\* detection.  When _check_block_balance strips and tokenizes a line with two
\* dashes inside an open string, the line is not cut at those dashes: the
\* tokens it goes on to read are those of the text outside strings up to the
\* real comment marker (or the end of the line), the block keywords after
\* the closing quote among them.  When a quote stands after a comment marker
\* that is outside a string, the quote is not reached: the tokens are those
\* of the text before the marker.
C17_StringStateFirst ==
    [][(pc = "balance" /\ pc' = "balance" /\ idx' = idx + 1) =>
         LET line == lines[idx']
         IN  (DashesInString(line) \/ QuoteAfterMarker(line)) =>
                 tokens' = Tokenize(SubSeq(CodeView(line), 1, MarkerColumn(line) - 1))
      ]_vars

\* The line read last has two dashes inside a string and an opening keyword
\* after the closing quote; the keyword has pushed its frame.
C17_Witness ==
    /\ pc = "balance"
    /\ idx >= 1
    /\ tokens = <<>>
    /\ DashesInString(lines[idx])
    /\ KeywordTokens(lines[idx]) # <<>>
    /\ stack # <<>>
    /\ stack[Len(stack)][2] = idx

\* The closing keyword the keyword pair table gives for an opener.
CloserOf(opener) == IF opener = KwRepeat THEN KwUntil ELSE KwEnd

\* C18: in every state of _check_block_balance the opening-line numbers of
\* the frames on the stack do not decrease from bottom to top and every
\* frame expects 'end' or 'until'; a step either leaves the stack as it is,
\* or puts on top of it the frame of the opening keyword it reads (the
\* closer the pair table gives for that opener, and the current line), or
\* removes the top frame.
C18_StackIsLifo ==
    /\ [](/\ \A k \in 1..(Len(stack) - 1) : stack[k][2] <= stack[k + 1][2]
          /\ \A k \in 1..Len(stack) :
                /\ stack[k][1] \in {KwEnd, KwUntil}
                /\ stack[k][2] \in 1..Len(lines))
    /\ [][\/ stack' = stack
          \/ /\ tokens # <<>>
             /\ Head(tokens) \in Openers
             /\ stack' = Append(stack, <<CloserOf(Head(tokens)), idx>>)
          \/ /\ stack # <<>>
             /\ stack' = SubSeq(stack, 1, Len(stack) - 1)
         ]_vars

\* All tokens are read; a repeat of line 1 and a do of line 2 are still
\* open, in that order, and a later block was opened and closed above them.
C18_Witness ==
    /\ pc = "balance"
    /\ tokens = <<>>
    /\ idx = Len(lines)
    /\ Len(stack) = 2
    /\ stack[1] = <<KwUntil, 1>>
    /\ stack[2] = <<KwEnd, 2>>
    /\ Len(SelectSeq(SourceKeywords, LAMBDA w : w \in Openers)) = 3
    /\ SyntaxIssues(issues) = <<>>

RECURSIVE TokensFrom(_, _)
\* The tokens _check_block_balance reads from line n on.
TokensFrom(ls, n) ==
    IF n > Len(ls) THEN <<>>
    ELSE Tokenize(StripComments(ls[n])) \o TokensFrom(ls, n + 1)

\* The number of elements of a sequence that satisfy a test.
Count(seq, Test(_)) == Len(SelectSeq(seq, Test))

\* C19: token accounting of _check_block_balance.  Reading an opening
\* keyword adds one frame and no issue; reading a closing keyword either
\* removes one frame and adds no issue (a silent pop) or leaves the stack
\* and adds one "Unexpected" or one "Expected ... opened at line" issue;
\* reading any other token changes neither the stack nor the issues.  Every
\* frame left at the end gives one "Unclosed block" issue.  So in the result
\* the opening keyword tokens not accounted for by "Unclosed block" issues
\* are as many as the closing keyword tokens not accounted for by
\* "Unexpected" and "Expected" issues: the silent pops.
C19_TokenAccounting ==
    /\ [][(pc = "balance" /\ tokens # <<>>) =>
            LET token == Head(tokens)
                added == SubSeq(issues', Len(issues) + 1, Len(issues'))
            IN  /\ SubSeq(issues', 1, Len(issues)) = issues
                /\ token \in Openers =>
                      /\ Len(stack') = Len(stack) + 1
                      /\ added = <<>>
                /\ token \in Closers =>
                      \/ /\ Len(stack') = Len(stack) - 1
                         /\ added = <<>>
                      \/ /\ stack' = stack
                         /\ Len(added) = 1
                         /\ FmtOf(added) \subseteq {"Unexpected '{token}'",
                                                    "Expected '{expected}' opened at line {start_line}"}
                /\ token \notin Keywords =>
                      /\ stack' = stack
                      /\ added = <<>>
         ]_vars
    /\ [](pc = "done" =>
            LET read == TokensFrom(lines, 1)
                opened == Count(read, LAMBDA w : w \in Openers)
                closed == Count(read, LAMBDA w : w \in Closers)
                unclosed == Count(issues, LAMBDA x : x.message.fmt = "Unclosed block expecting '{expected}'")
                unexpected == Count(issues, LAMBDA x : x.message.fmt = "Unexpected '{token}'")
                mismatched == Count(issues, LAMBDA x : x.message.fmt = "Expected '{expected}' opened at line {start_line}")
            IN  /\ unclosed = Len(stack)
                /\ opened >= unclosed
                /\ opened - unclosed = closed - unexpected - mismatched)

\* A finished run with a silent pop, an unexpected closer, a mismatched
\* closer and an unclosed block.
C19_Witness ==
    /\ pc = "done"
    /\ Count(TokensFrom(lines, 1), LAMBDA w : w \in Openers) > Len(stack)
    /\ {"Unclosed block expecting '{expected}'", "Unexpected '{token}'",
        "Expected '{expected}' opened at line {start_line}"} \subseteq FmtOf(issues)

\* Line n of the source, empty when the source has no such line.
LineAt(n) == IF n \in 1..Len(lines) THEN lines[n] ELSE <<>>

\* The columns of a text at which a word (a maximal run of letters and
\* underscores) starts.
WordStarts(text) ==
    {i \in 1..Len(text) : IsWordChar(text[i]) /\ (i = 1 \/ ~IsWordChar(text[i - 1]))}

\* The column at which the k-th word outside strings and comments of a raw
\* line starts.
TrueColumn(line, k) ==
    LET starts == WordStarts(SubSeq(CodeView(line), 1, MarkerColumn(line) - 1))
    IN  CHOOSE i \in starts : Cardinality({j \in starts : j <= i}) = k

\* The number of tokens of the current line that have been read.
TokensRead == Len(Tokenize(StripComments(lines[idx]))) - Len(tokens)

\* C20: issue positions stay inside the source.  Every issue has a line of
\* at most max(1, number of lines) and a column of at most the length of
\* that line plus one.  When _check_block_balance yields an Unexpected or
\* Expected issue for a token, the text of the token occurs in the raw
\* line, so _find_column does not fall back to column 1: the token stands
\* in the raw line at the reported column, and the reported column is at
\* most the column at which the offending token itself stands.
C20_PositionsInsideSource ==
    /\ [](\A k \in 1..Len(issues) :
             /\ issues[k].line <= (IF Len(lines) > 1 THEN Len(lines) ELSE 1)
             /\ issues[k].column <= Len(LineAt(issues[k].line)) + 1)
    /\ [][(pc = "balance" /\ tokens # <<>> /\ Len(issues') = Len(issues) + 1) =>
            LET token == Head(tokens)
                line == lines[idx]
                issue == issues'[Len(issues')]
                true_column == TrueColumn(line, TokensRead + 1)
            IN  /\ issue.line = idx
                /\ Find(line, token) >= 0
                /\ SubSeq(line, issue.column, issue.column + Len(token) - 1) = token
                /\ SubSeq(line, true_column, true_column + Len(token) - 1) = token
                /\ issue.column <= true_column
         ]_vars

\* The issue yielded last is for a closing keyword whose text also occurs
\* earlier in its line: the reported column is left of the token.
C20_Witness ==
    /\ pc = "balance"
    /\ idx >= 1
    /\ issues # <<>>
    /\ TokensRead >= 1
    /\ LET issue == issues[Len(issues)]
       IN  /\ issue.code = "SYNTAX"
           /\ issue.line = idx
           /\ issue.column < TrueColumn(lines[idx], TokensRead)
           /\ Tokenize(StripComments(lines[idx]))[TokensRead] \in Closers

====
